---- MODULE Spec2Model ----
(***************************************************************************)
(* The room registry of backend/rooms.py: the module-level dict _rooms,    *)
(* the lock _room_lock and the six coroutines create_room, join_room,      *)
(* get_room_state, start_room, advance_room and submit_answer.             *)
(*                                                                         *)
(* Strings that the code inspects character by character (room codes,      *)
(* answers) are sequences of one-character strings; strings the code only  *)
(* stores and copies (names, titles, question text) are TLA+ strings.      *)
(* None is the integer -1 where the code holds Optional[int] and the       *)
(* record NoQuestion where it holds Optional[ActiveQuestion].              *)
(***************************************************************************)
EXTENDS Integers, Sequences, FiniteSets, TLC

VARIABLES rooms, nextId, last, started, locked, tasks, access

vars == <<rooms, nextId, last, started, locked, tasks, access>>

(***************************************************************************)
(* Bounds                                                                  *)
(***************************************************************************)
\* number of uuid4() draws (host and player identifiers) in one run
MaxIds == 3
\* the same, in the runs with coroutines side by side
MaxConcIds == 2
\* the same, in the runs with two games side by side
MaxRoomIds == 4

(***************************************************************************)
(* Program constants and text helpers                                      *)
(***************************************************************************)
ROOM_CODE_LENGTH == 6

\* the part of string.ascii_uppercase + string.digits the model draws from
ROOM_CODE_ALPHABET == {"A", "7"}

None == -1

Whitespace == {" "}

\* str.upper() on one character
UpperChar(c) == CASE c = "a" -> "A"
                  [] c = "z" -> "Z"
                  [] OTHER -> c

Upper(s) == [i \in 1..Len(s) |-> UpperChar(s[i])]

RECURSIVE LStrip(_)
LStrip(s) == IF s = <<>> THEN s
             ELSE IF Head(s) \in Whitespace THEN LStrip(Tail(s)) ELSE s

RECURSIVE RStrip(_)
RStrip(s) == IF s = <<>> THEN s
             ELSE IF s[Len(s)] \in Whitespace THEN RStrip(SubSeq(s, 1, Len(s) - 1)) ELSE s

\* str.strip()
Strip(s) == RStrip(LStrip(s))

\* faulty variant: the case is folded but the blanks are kept
NormalizeCodeUnstripped(code) == Upper(code)

\* _normalize_code
NormalizeCode(code) == Upper(Strip(code))

(***************************************************************************)
(* Inputs                                                                  *)
(***************************************************************************)
CodeA == [i \in 1..ROOM_CODE_LENGTH |-> "A"]
Code7 == [i \in 1..ROOM_CODE_LENGTH |-> IF i % 2 = 1 THEN "7" ELSE "A"]

\* the codes the random source produces in the model
CodeDraws == {CodeA, Code7}

\* codes as clients type them: CodeA exactly, Code7 in lower case with
\* surrounding blanks, and a code that is never created
Code7Typed == <<" ">> \o [i \in 1..ROOM_CODE_LENGTH |-> IF i % 2 = 1 THEN "7" ELSE "a"] \o <<" ">>
CodeZ == [i \in 1..ROOM_CODE_LENGTH |-> "Z"]

RequestCodes == {CodeA, Code7Typed, CodeZ}

Names == {"Alice"}
HostNames == {"Host"}
Difficulties == {"Hard"}

AnsLower == <<"a">>
AnsUpper == <<"A">>
AnsPadded == <<" ", "a">>

\* answers as players submit them
Answers == {AnsLower, AnsUpper, AnsPadded}

QuizEmpty == [quiz_title |-> "Empty", questions |-> <<>>]

QuizCapitals ==
    [quiz_title |-> "Capitals",
     questions |-> << [question |-> "q1", choices |-> <<AnsLower, AnsUpper>>, answer |-> AnsLower],
                      [question |-> "q2", choices |-> <<AnsLower, AnsUpper>>, answer |-> AnsUpper] >>]

QuizPadded ==
    [quiz_title |-> "Padded",
     questions |-> << [question |-> "q1", choices |-> <<AnsPadded, AnsLower>>, answer |-> AnsPadded] >>]

\* QuizResponse values handed to create_room
Quizzes == {QuizEmpty, QuizCapitals, QuizPadded}

(***************************************************************************)
(* Results of an operation: the new registry, the outcome and the value    *)
(* returned.  kind is "ok" or the name of the exception raised.            *)
(***************************************************************************)
NoResp == [none |-> TRUE]
NoQuestion == [none |-> TRUE]
EmptyMap == [k \in {} |-> 0]

Raise(rs, kind) == [rooms |-> rs, kind |-> kind, resp |-> NoResp]
Return(rs, resp) == [rooms |-> rs, kind |-> "ok", resp |-> resp]

\* the elements of a finite set of integers in increasing order
RECURSIVE SortedSeq(_)
SortedSeq(S) == IF S = {} THEN <<>>
                ELSE LET m == CHOOSE x \in S : \A y \in S : x <= y
                     IN <<m>> \o SortedSeq(S \ {m})

\* faulty variant: the view also carries the question's answer
ActiveQuestionWithAnswer(quiz, current_index, total_questions) ==
    [question_index |-> current_index,
     question_number |-> current_index + 1,
     question |-> quiz.questions[current_index + 1].question,
     choices |-> quiz.questions[current_index + 1].choices,
     answer |-> quiz.questions[current_index + 1].answer,
     total_questions |-> total_questions]

\* faulty variant: the display number is the zero-based index
ActiveQuestionUnshifted(quiz, current_index, total_questions) ==
    [question_index |-> current_index,
     question_number |-> current_index,
     question |-> quiz.questions[current_index + 1].question,
     choices |-> quiz.questions[current_index + 1].choices,
     total_questions |-> total_questions]

\* _build_room_state, lines 66-73: the ActiveQuestion built for a valid index
\* (quiz.questions[current_index] of the code is questions[current_index + 1] here)
ActiveQuestion(quiz, current_index, total_questions) ==
    [question_index |-> current_index,
     question_number |-> current_index + 1,
     question |-> quiz.questions[current_index + 1].question,
     choices |-> quiz.questions[current_index + 1].choices,
     total_questions |-> total_questions]

\* faulty variant: read from the player's own answer history
HasAnsweredFromHistory(room, player, current_index) ==
    current_index # None /\ current_index \in DOMAIN player.answers

\* _build_room_state, lines 80-82
HasAnsweredCurrent(room, player, current_index) ==
    /\ room.status = "in_progress"
    /\ current_index # None
    /\ player.id \in DOMAIN room.answers

\* _build_room_state
BuildRoomState(room) ==
    LET current_index == room.current_question_index
        quiz == room.quiz
        total_questions == Len(quiz.questions)
        active_question ==
            IF room.status = "in_progress" /\ current_index # None
               /\ 0 <= current_index /\ current_index < total_questions
            THEN ActiveQuestion(quiz, current_index, total_questions)
            ELSE NoQuestion
        ids == SortedSeq(DOMAIN room.players)
        players_state ==
            [i \in 1..Len(ids) |->
                [player_id |-> room.players[ids[i]].id,
                 name |-> room.players[ids[i]].name,
                 score |-> room.players[ids[i]].score,
                 has_answered_current |->
                     HasAnsweredCurrent(room, room.players[ids[i]], current_index)]]
    IN [room_code |-> room.code,
        status |-> room.status,
        quiz_title |-> quiz.quiz_title,
        difficulty |-> room.difficulty,
        current_question_index |-> current_index,
        question_count |-> total_questions,
        players |-> players_state,
        question |-> active_question]

\* faulty variant: no draw is taken to collide
CodeIsFreeAlways(code, rs) == TRUE

\* _generate_room_code, line 44: the test of one draw
CodeIsFree(code, rs) == code \notin DOMAIN rs

\* faulty variant: the draw is returned without the test against _rooms
GenerateRoomCodeAny(rs) == CodeDraws

\* the codes _generate_room_code can return: a draw that is not a key of _rooms
GenerateRoomCode(rs) == {code \in CodeDraws : code \notin DOMAIN rs}

\* faulty variant: the host is entered as the first player of the room
CreateRoomBodyHostSeated(rs, code, host_id, host_name, quiz, difficulty) ==
    Return((code :> [code |-> code,
                     host_id |-> host_id,
                     host_name |-> host_name,
                     quiz |-> quiz,
                     difficulty |-> difficulty,
                     status |-> "waiting",
                     current_question_index |-> None,
                     players |-> (host_id :> [id |-> host_id, name |-> host_name,
                                              score |-> 0, answers |-> EmptyMap]),
                     answers |-> EmptyMap]) @@ rs,
           [room_code |-> code, host_id |-> host_id, quiz |-> quiz])

\* create_room, lines 101-114, for the code and uuid drawn
CreateRoomBody(rs, code, host_id, host_name, quiz, difficulty) ==
    Return((code :> [code |-> code,
                     host_id |-> host_id,
                     host_name |-> host_name,
                     quiz |-> quiz,
                     difficulty |-> difficulty,
                     status |-> "waiting",
                     current_question_index |-> None,
                     players |-> EmptyMap,
                     answers |-> EmptyMap]) @@ rs,
           [room_code |-> code, host_id |-> host_id, quiz |-> quiz])

\* faulty variant: an unknown code falls back on some live room
JoinRoomBodyAnyRoom(rs, code, player_id, player_name) ==
    IF DOMAIN rs = {} THEN Raise(rs, "RoomNotFound")
    ELSE LET found == IF code \in DOMAIN rs THEN code ELSE CHOOSE c \in DOMAIN rs : TRUE
             room == rs[found]
             player == [id |-> player_id, name |-> player_name, score |-> 0, answers |-> EmptyMap]
         IN Return([rs EXCEPT ![found].players = (player_id :> player) @@ room.players],
                   [player_id |-> player_id])

\* faulty variant: the new player replaces the players of the room
JoinRoomBodyAlone(rs, code, player_id, player_name) ==
    IF code \notin DOMAIN rs THEN Raise(rs, "RoomNotFound")
    ELSE LET player == [id |-> player_id, name |-> player_name, score |-> 0, answers |-> EmptyMap]
         IN Return([rs EXCEPT ![code].players = (player_id :> player)],
                   [player_id |-> player_id])

\* join_room, lines 120-127: the block under the lock
JoinRoomBody(rs, code, player_id, player_name) ==
    IF code \notin DOMAIN rs THEN Raise(rs, "RoomNotFound")
    ELSE LET room == rs[code]
             player == [id |-> player_id, name |-> player_name, score |-> 0, answers |-> EmptyMap]
         IN Return([rs EXCEPT ![code].players = (player_id :> player) @@ room.players],
                   [player_id |-> player_id])

\* join_room, lines 128-133: the response built from the room as it is now
JoinRoomResponse(rs, code, player_id) ==
    [room_code |-> code,
     player_id |-> player_id,
     quiz_title |-> rs[code].quiz.quiz_title,
     status |-> rs[code].status]

\* get_room_state, lines 139-140
GetRoomStateBody(rs, code) ==
    IF code \notin DOMAIN rs THEN Raise(rs, "RoomNotFound")
    ELSE Return(rs, BuildRoomState(rs[code]))

\* faulty variant: a room can be started again
AlreadyStartedNever(room) == FALSE

\* start_room, line 149
AlreadyStarted(room) == room.status # "waiting"

\* faulty variant: a room can be started without players
NoPlayersNever(room) == FALSE

\* start_room, line 151
NoPlayers(room) == DOMAIN room.players = {}

\* faulty variant: the game starts at the second question
BeginRoomAtOne(room) == [room EXCEPT !.status = "in_progress",
                                     !.current_question_index = 1,
                                     !.answers = EmptyMap]

\* start_room, lines 153-155
BeginRoom(room) == [room EXCEPT !.status = "in_progress",
                                !.current_question_index = 0,
                                !.answers = EmptyMap]

\* faulty variant: the status is tested before the host credential
StartRoomBodyStatusFirst(rs, code, host_id) ==
    IF code \notin DOMAIN rs THEN Raise(rs, "RoomNotFound")
    ELSE LET room == rs[code] IN
         IF AlreadyStarted(room) THEN Raise(rs, "InvalidAction")
         ELSE IF room.host_id # host_id THEN Raise(rs, "Unauthorized")
         ELSE IF NoPlayers(room) THEN Raise(rs, "InvalidAction")
         ELSE Return([rs EXCEPT ![code] = BeginRoom(room)], BuildRoomState(BeginRoom(room)))

\* start_room, lines 146-156
StartRoomBody(rs, code, host_id) ==
    IF code \notin DOMAIN rs THEN Raise(rs, "RoomNotFound")
    ELSE LET room == rs[code] IN
         IF room.host_id # host_id THEN Raise(rs, "Unauthorized")
         ELSE IF AlreadyStarted(room) THEN Raise(rs, "InvalidAction")
         ELSE IF NoPlayers(room) THEN Raise(rs, "InvalidAction")
         ELSE Return([rs EXCEPT ![code] = BeginRoom(room)], BuildRoomState(BeginRoom(room)))

\* faulty variant: the game ends one question late
AtLastQuestionLate(current_index, total_questions) == current_index >= total_questions

\* advance_room, line 174: the test that ends the game
AtLastQuestion(current_index, total_questions) == current_index >= total_questions - 1

\* faulty variant: the answers to the last question outlive the game
FinishRoomKeepAnswers(room) == [room EXCEPT !.status = "finished"]

\* advance_room, lines 175-176
FinishRoom(room) == [room EXCEPT !.status = "finished", !.answers = EmptyMap]

\* faulty variant: the answers of the previous question are kept
NextQuestionKeepAnswers(room, current_index) ==
    [room EXCEPT !.current_question_index = current_index + 1]

\* faulty variant: the index stays where it is
NextQuestionStuck(room, current_index) ==
    [room EXCEPT !.current_question_index = current_index, !.answers = EmptyMap]

\* advance_room, lines 178-179
NextQuestion(room, current_index) ==
    [room EXCEPT !.current_question_index = current_index + 1, !.answers = EmptyMap]

\* faulty variant: the projection is built before the room is changed
AdvanceRoomBodyStale(rs, code, host_id) ==
    IF code \notin DOMAIN rs THEN Raise(rs, "RoomNotFound")
    ELSE LET room == rs[code] IN
         IF room.host_id # host_id THEN Raise(rs, "Unauthorized")
         ELSE IF room.status # "in_progress" THEN Raise(rs, "InvalidAction")
         ELSE LET current_index == room.current_question_index
                  total_questions == Len(room.quiz.questions)
              IN IF current_index = None THEN Raise(rs, "InvalidAction")
                 ELSE LET room2 == IF AtLastQuestion(current_index, total_questions)
                                   THEN FinishRoom(room)
                                   ELSE NextQuestion(room, current_index)
                      IN Return([rs EXCEPT ![code] = room2], BuildRoomState(room))

\* faulty variant: the host of any room may advance the room
AdvanceRoomBodyAnyHost(rs, code, host_id) ==
    IF code \notin DOMAIN rs THEN Raise(rs, "RoomNotFound")
    ELSE LET room == rs[code] IN
         IF \A c \in DOMAIN rs : rs[c].host_id # host_id THEN Raise(rs, "Unauthorized")
         ELSE IF room.status # "in_progress" THEN Raise(rs, "InvalidAction")
         ELSE LET current_index == room.current_question_index
                  total_questions == Len(room.quiz.questions)
              IN IF current_index = None THEN Raise(rs, "InvalidAction")
                 ELSE LET room2 == IF AtLastQuestion(current_index, total_questions)
                                   THEN FinishRoom(room)
                                   ELSE NextQuestion(room, current_index)
                      IN Return([rs EXCEPT ![code] = room2], BuildRoomState(room2))

\* advance_room, lines 162-180
AdvanceRoomBody(rs, code, host_id) ==
    IF code \notin DOMAIN rs THEN Raise(rs, "RoomNotFound")
    ELSE LET room == rs[code] IN
         IF room.host_id # host_id THEN Raise(rs, "Unauthorized")
         ELSE IF room.status # "in_progress" THEN Raise(rs, "InvalidAction")
         ELSE LET current_index == room.current_question_index
                  total_questions == Len(room.quiz.questions)
              IN IF current_index = None THEN Raise(rs, "InvalidAction")
                 ELSE LET room2 == IF AtLastQuestion(current_index, total_questions)
                                   THEN FinishRoom(room)
                                   ELSE NextQuestion(room, current_index)
                      IN Return([rs EXCEPT ![code] = room2], BuildRoomState(room2))

\* faulty variant: a player can answer the same question again
AlreadyAnsweredNever(room, player_id) == FALSE

\* submit_answer, line 198
AlreadyAnswered(room, player_id) == player_id \in DOMAIN room.answers

\* submit_answer, line 202
IsCorrect(answer, current_question) == Strip(answer) = current_question.answer

\* faulty variant: the submission is not entered in the room's current answers
RecordAnswerNoMark(room, player_id, current_index, answer, is_correct) ==
    LET player == room.players[player_id]
    IN [room EXCEPT !.players[player_id] =
          [player EXCEPT
             !.answers = (current_index :> [answer |-> answer, is_correct |-> is_correct])
                         @@ [k \in DOMAIN player.answers \ {current_index} |-> player.answers[k]],
             !.score = IF is_correct THEN player.score + 1 ELSE player.score]]

\* faulty variant: the room moves to the next question by itself once every
\* player has answered
RecordAnswerAutoAdvance(room, player_id, current_index, answer, is_correct) ==
    LET player == room.players[player_id]
        player2 == [player EXCEPT
                      !.answers = (current_index :> [answer |-> answer, is_correct |-> is_correct])
                                  @@ [k \in DOMAIN player.answers \ {current_index} |-> player.answers[k]],
                      !.score = IF is_correct THEN player.score + 1 ELSE player.score]
        answers2 == (player_id :> answer)
                    @@ [k \in DOMAIN room.answers \ {player_id} |-> room.answers[k]]
    IN IF DOMAIN answers2 = DOMAIN room.players
       THEN [room EXCEPT !.players[player_id] = player2,
                         !.answers = EmptyMap,
                         !.current_question_index = current_index + 1]
       ELSE [room EXCEPT !.players[player_id] = player2, !.answers = answers2]

\* faulty variant: every recorded answer scores a point
RecordAnswerAlwaysScores(room, player_id, current_index, answer, is_correct) ==
    LET player == room.players[player_id]
        player2 == [player EXCEPT
                      !.answers = (current_index :> [answer |-> answer, is_correct |-> is_correct])
                                  @@ [k \in DOMAIN player.answers \ {current_index} |-> player.answers[k]],
                      !.score = player.score + 1]
    IN [room EXCEPT !.players[player_id] = player2,
                    !.answers = (player_id :> answer)
                                @@ [k \in DOMAIN room.answers \ {player_id} |-> room.answers[k]]]

\* submit_answer, lines 203-210: the writes of a submission
RecordAnswer(room, player_id, current_index, answer, is_correct) ==
    LET player == room.players[player_id]
        player2 == [player EXCEPT
                      !.answers = (current_index :> [answer |-> answer, is_correct |-> is_correct])
                                  @@ [k \in DOMAIN player.answers \ {current_index} |-> player.answers[k]],
                      !.score = IF is_correct THEN player.score + 1 ELSE player.score]
    IN [room EXCEPT !.players[player_id] = player2,
                    !.answers = (player_id :> answer)
                                @@ [k \in DOMAIN room.answers \ {player_id} |-> room.answers[k]]]

\* faulty variant: the player is looked up before the status is tested
SubmitAnswerBodyPlayerFirst(rs, code, player_id, answer) ==
    IF code \notin DOMAIN rs THEN Raise(rs, "RoomNotFound")
    ELSE LET room == rs[code] IN
         IF player_id \notin DOMAIN room.players THEN Raise(rs, "Unauthorized")
         ELSE IF room.status # "in_progress" THEN Raise(rs, "InvalidAction")
         ELSE LET current_index == room.current_question_index IN
              IF current_index = None THEN Raise(rs, "InvalidAction")
              ELSE IF AlreadyAnswered(room, player_id) THEN Raise(rs, "InvalidAction")
              ELSE IF current_index >= Len(room.quiz.questions) THEN Raise(rs, "IndexError")
              ELSE LET current_question == room.quiz.questions[current_index + 1]
                       is_correct == IsCorrect(answer, current_question)
                       room2 == RecordAnswer(room, player_id, current_index, answer, is_correct)
                   IN Return([rs EXCEPT ![code] = room2], BuildRoomState(room2))

\* faulty variant: submissions are taken whatever the status of the room
SubmitAnswerBodyAnyStatus(rs, code, player_id, answer) ==
    IF code \notin DOMAIN rs THEN Raise(rs, "RoomNotFound")
    ELSE LET room == rs[code] IN
         IF player_id \notin DOMAIN room.players THEN Raise(rs, "Unauthorized")
         ELSE LET current_index == room.current_question_index IN
              IF current_index = None THEN Raise(rs, "InvalidAction")
              ELSE IF AlreadyAnswered(room, player_id) THEN Raise(rs, "InvalidAction")
              ELSE IF current_index >= Len(room.quiz.questions) THEN Raise(rs, "IndexError")
              ELSE LET current_question == room.quiz.questions[current_index + 1]
                       is_correct == IsCorrect(answer, current_question)
                       room2 == RecordAnswer(room, player_id, current_index, answer, is_correct)
                   IN Return([rs EXCEPT ![code] = room2], BuildRoomState(room2))

\* faulty variant: an index past the last question is refused as an invalid action
SubmitAnswerBodyBoundsChecked(rs, code, player_id, answer) ==
    IF code \notin DOMAIN rs THEN Raise(rs, "RoomNotFound")
    ELSE LET room == rs[code] IN
         IF room.status # "in_progress" THEN Raise(rs, "InvalidAction")
         ELSE IF player_id \notin DOMAIN room.players THEN Raise(rs, "Unauthorized")
         ELSE LET current_index == room.current_question_index IN
              IF current_index = None THEN Raise(rs, "InvalidAction")
              ELSE IF AlreadyAnswered(room, player_id) THEN Raise(rs, "InvalidAction")
              ELSE IF current_index >= Len(room.quiz.questions) THEN Raise(rs, "InvalidAction")
              ELSE LET current_question == room.quiz.questions[current_index + 1]
                       is_correct == IsCorrect(answer, current_question)
                       room2 == RecordAnswer(room, player_id, current_index, answer, is_correct)
                   IN Return([rs EXCEPT ![code] = room2], BuildRoomState(room2))

\* faulty variant: the answer is recorded before the question is looked up
SubmitAnswerBodyWriteFirst(rs, code, player_id, answer) ==
    IF code \notin DOMAIN rs THEN Raise(rs, "RoomNotFound")
    ELSE LET room == rs[code] IN
         IF room.status # "in_progress" THEN Raise(rs, "InvalidAction")
         ELSE IF player_id \notin DOMAIN room.players THEN Raise(rs, "Unauthorized")
         ELSE LET current_index == room.current_question_index
                  marked == [room EXCEPT !.answers = (player_id :> answer) @@ room.answers]
              IN
              IF current_index = None THEN Raise(rs, "InvalidAction")
              ELSE IF AlreadyAnswered(room, player_id) THEN Raise(rs, "InvalidAction")
              ELSE IF current_index >= Len(room.quiz.questions)
                   THEN Raise([rs EXCEPT ![code] = marked], "IndexError")
              ELSE LET current_question == room.quiz.questions[current_index + 1]
                       is_correct == IsCorrect(answer, current_question)
                       room2 == RecordAnswer(room, player_id, current_index, answer, is_correct)
                   IN Return([rs EXCEPT ![code] = room2], BuildRoomState(room2))

\* submit_answer, lines 186-211
SubmitAnswerBody(rs, code, player_id, answer) ==
    IF code \notin DOMAIN rs THEN Raise(rs, "RoomNotFound")
    ELSE LET room == rs[code] IN
         IF room.status # "in_progress" THEN Raise(rs, "InvalidAction")
         ELSE IF player_id \notin DOMAIN room.players THEN Raise(rs, "Unauthorized")
         ELSE LET current_index == room.current_question_index IN
              IF current_index = None THEN Raise(rs, "InvalidAction")
              ELSE IF AlreadyAnswered(room, player_id) THEN Raise(rs, "InvalidAction")
              ELSE IF current_index >= Len(room.quiz.questions) THEN Raise(rs, "IndexError")
              ELSE LET current_question == room.quiz.questions[current_index + 1]
                       is_correct == IsCorrect(answer, current_question)
                       room2 == RecordAnswer(room, player_id, current_index, answer, is_correct)
                   IN Return([rs EXCEPT ![code] = room2], BuildRoomState(room2))

(***************************************************************************)
(* The registry driven one call at a time.  last is the call just made:    *)
(* its operation, the code as passed, its outcome and the value returned.  *)
(***************************************************************************)
NoCall == [op |-> "none", code |-> <<>>, kind |-> "ok", resp |-> NoResp]

\* a coroutine that has not been called yet
NoRace == [none |-> TRUE]
NoTask == [pc |-> "idle", op |-> "none", code |-> <<>>, id |-> 0, answer |-> <<>>, kind |-> "ok",
           resp |-> NoResp, race |-> NoRace]

\* the coroutines that run side by side on the event loop
Tasks == {1, 2}

Init ==
    /\ rooms = EmptyMap
    /\ nextId = 1
    /\ last = NoCall
    /\ started = {}
    /\ locked = FALSE
    /\ tasks = [t \in Tasks |-> NoTask]
    /\ access = [task |-> 0, op |-> "none", held |-> TRUE]

\* identifiers a client can present: 0 was never issued, the others were
IdInputs == 0..(nextId - 1)

Finish(op, code, r) ==
    /\ rooms' = r.rooms
    /\ last' = [op |-> op, code |-> code, kind |-> r.kind, resp |-> r.resp]

CreateRoom ==
    /\ nextId <= MaxIds
    /\ \E code \in GenerateRoomCode(rooms), host_name \in HostNames,
          quiz \in Quizzes, difficulty \in Difficulties :
         Finish("create", code,
                CreateRoomBody(rooms, code, nextId, host_name, quiz, difficulty))
    /\ nextId' = nextId + 1
    /\ UNCHANGED <<started, locked, tasks, access>>

JoinRoom ==
    \E code \in RequestCodes, player_name \in Names :
       LET normalized_code == NormalizeCode(code)
           r == JoinRoomBody(rooms, normalized_code, nextId, player_name)
       IN /\ nextId <= MaxIds
          /\ Finish("join", code,
                    IF r.kind = "ok"
                    THEN Return(r.rooms, JoinRoomResponse(r.rooms, normalized_code, nextId))
                    ELSE r)
          /\ nextId' = IF r.kind = "ok" THEN nextId + 1 ELSE nextId
          /\ UNCHANGED <<started, locked, tasks, access>>

GetRoomState ==
    \E code \in RequestCodes :
       /\ Finish("state", code, GetRoomStateBody(rooms, NormalizeCode(code)))
       /\ UNCHANGED <<nextId, started, locked, tasks, access>>

StartRoom ==
    \E code \in RequestCodes, host_id \in IdInputs :
       LET r == StartRoomBody(rooms, NormalizeCode(code), host_id)
       IN /\ Finish("start", code, r)
          /\ started' = IF r.kind = "ok" THEN started \cup {NormalizeCode(code)} ELSE started
          /\ UNCHANGED <<nextId, locked, tasks, access>>

AdvanceRoom ==
    \E code \in RequestCodes, host_id \in IdInputs :
       /\ Finish("advance", code, AdvanceRoomBody(rooms, NormalizeCode(code), host_id))
       /\ UNCHANGED <<nextId, started, locked, tasks, access>>

SubmitAnswer ==
    \E code \in RequestCodes, player_id \in IdInputs, answer \in Answers :
       /\ Finish("submit", code,
                 SubmitAnswerBody(rooms, NormalizeCode(code), player_id, answer))
       /\ UNCHANGED <<nextId, started, locked, tasks, access>>

Next ==
    \/ CreateRoom
    \/ JoinRoom
    \/ GetRoomState
    \/ StartRoom
    \/ AdvanceRoom
    \/ SubmitAnswer

Spec == Init /\ [][Next]_vars

(***************************************************************************)
(* The registry called from coroutines that run side by side.  A call      *)
(* waits for _room_lock ("acquire"), runs the block under `async with`     *)
(* ("critical"), leaves the block ("release") and, in join_room, builds    *)
(* its response after the block ("return").  access is the latest read or  *)
(* write of _rooms: who made it, and whether it held the lock.             *)
(***************************************************************************)
ConcCodeDraws == {CodeA, Code7}
ConcRequestCodes == {CodeA}
ConcQuizzes == {QuizCapitals, QuizEmpty}
ConcAnswers == {AnsLower}

\* asyncio.Lock: the task between acquire() and release()
HoldsLock(t) == tasks[t].pc \in {"critical", "release"}

\* asyncio.Lock.acquire, the test of _locked
LockFree == ~locked

Touch(t) == access' = [task |-> t, op |-> tasks[t].op, held |-> HoldsLock(t)]

\* the line before the lock: normalized_code = _normalize_code(code)
Request(op, code, id, answer) ==
    [NoTask EXCEPT !.pc = "acquire", !.op = op, !.code = NormalizeCode(code),
                   !.id = id, !.answer = answer]

\* calls that have yet to draw a uuid, and those that have yet to draw a code
PendingDraws == Cardinality({t \in Tasks : tasks[t].pc \in {"acquire", "critical"}
                                            /\ tasks[t].op \in {"create", "join"}})
PendingCreates == Cardinality({t \in Tasks : tasks[t].pc \in {"acquire", "critical"}
                                              /\ tasks[t].op = "create"})

\* every code that can be drawn is live or about to be: a create_room called
\* now finds no free code, so it draws no identifier and its loop does not end
KeyspaceTaken == Cardinality(DOMAIN rooms) + PendingCreates >= Cardinality(ConcCodeDraws)

\* a submit_answer call issued while the other coroutine's call for the same
\* player is still waiting for the lock, the room being in progress on a
\* question that player has not answered.  Both calls then carry race: the
\* room, the player, the question index and the player's score at that moment.
Races(t, code, player_id) ==
    /\ code \in DOMAIN rooms
    /\ rooms[code].status = "in_progress"
    /\ rooms[code].current_question_index < Len(rooms[code].quiz.questions)
    /\ player_id \in DOMAIN rooms[code].players
    /\ rooms[code].current_question_index \notin DOMAIN rooms[code].players[player_id].answers
    /\ \E u \in Tasks \ {t} : /\ tasks[u].pc = "acquire"
                              /\ tasks[u].op = "submit"
                              /\ tasks[u].code = code
                              /\ tasks[u].id = player_id

CallCreate(t) ==
    /\ tasks[t].pc = "idle"
    /\ \/ nextId + PendingDraws <= MaxConcIds
       \/ KeyspaceTaken
    /\ tasks' = [tasks EXCEPT ![t] = Request("create", <<>>, 0, <<>>)]
    /\ UNCHANGED <<rooms, nextId, last, started, locked, access>>

CallJoin(t) ==
    /\ tasks[t].pc = "idle"
    /\ nextId + PendingDraws <= MaxConcIds
    /\ \E code \in ConcRequestCodes :
          tasks' = [tasks EXCEPT ![t] = Request("join", code, 0, <<>>)]
    /\ UNCHANGED <<rooms, nextId, last, started, locked, access>>

CallState(t) ==
    /\ tasks[t].pc = "idle"
    /\ \E code \in ConcRequestCodes :
          tasks' = [tasks EXCEPT ![t] = Request("state", code, 0, <<>>)]
    /\ UNCHANGED <<rooms, nextId, last, started, locked, access>>

CallStart(t) ==
    /\ tasks[t].pc = "idle"
    /\ \E code \in ConcRequestCodes, host_id \in IdInputs :
          tasks' = [tasks EXCEPT ![t] = Request("start", code, host_id, <<>>)]
    /\ UNCHANGED <<rooms, nextId, last, started, locked, access>>

CallAdvance(t) ==
    /\ tasks[t].pc = "idle"
    /\ \E code \in ConcRequestCodes, host_id \in IdInputs :
          tasks' = [tasks EXCEPT ![t] = Request("advance", code, host_id, <<>>)]
    /\ UNCHANGED <<rooms, nextId, last, started, locked, access>>

CallSubmit(t) ==
    /\ tasks[t].pc = "idle"
    /\ \E typed \in ConcRequestCodes, player_id \in IdInputs, answer \in ConcAnswers :
          LET code == NormalizeCode(typed)
              race == IF Races(t, code, player_id)
                      THEN [code |-> code, player_id |-> player_id,
                            index |-> rooms[code].current_question_index,
                            score0 |-> rooms[code].players[player_id].score]
                      ELSE NoRace
          IN tasks' = [u \in Tasks |->
                         IF u = t
                         THEN [Request("submit", typed, player_id, answer) EXCEPT !.race = race]
                         ELSE IF race # NoRace
                         THEN [tasks[u] EXCEPT !.race = race]
                         ELSE tasks[u]]
    /\ UNCHANGED <<rooms, nextId, last, started, locked, access>>

\* async with _room_lock: entry
Acquire(t) ==
    /\ tasks[t].pc = "acquire"
    /\ LockFree
    /\ locked' = TRUE
    /\ tasks' = [tasks EXCEPT ![t].pc = "critical"]
    /\ UNCHANGED <<rooms, nextId, last, started, access>>

\* the block under the lock has run: r is its outcome
Leave(t, r) ==
    /\ rooms' = r.rooms
    /\ tasks' = [tasks EXCEPT ![t].pc = "release", ![t].kind = r.kind, ![t].resp = r.resp]
    /\ Touch(t)

RunCreate(t) ==
    /\ tasks[t].pc = "critical" /\ tasks[t].op = "create"
    /\ \E code \in GenerateRoomCode(rooms) \cap ConcCodeDraws, host_name \in HostNames,
          quiz \in ConcQuizzes, difficulty \in Difficulties :
         Leave(t, CreateRoomBody(rooms, code, nextId, host_name, quiz, difficulty))
    /\ nextId' = nextId + 1
    /\ UNCHANGED <<last, started, locked>>

RunJoin(t) ==
    /\ tasks[t].pc = "critical" /\ tasks[t].op = "join"
    /\ \E player_name \in Names :
         LET r == JoinRoomBody(rooms, tasks[t].code, nextId, player_name)
         IN /\ Leave(t, r)
            /\ nextId' = IF r.kind = "ok" THEN nextId + 1 ELSE nextId
    /\ UNCHANGED <<last, started, locked>>

RunState(t) ==
    /\ tasks[t].pc = "critical" /\ tasks[t].op = "state"
    /\ Leave(t, GetRoomStateBody(rooms, tasks[t].code))
    /\ UNCHANGED <<nextId, last, started, locked>>

RunStart(t) ==
    /\ tasks[t].pc = "critical" /\ tasks[t].op = "start"
    /\ LET r == StartRoomBody(rooms, tasks[t].code, tasks[t].id)
       IN /\ Leave(t, r)
          /\ started' = IF r.kind = "ok" THEN started \cup {tasks[t].code} ELSE started
    /\ UNCHANGED <<nextId, last, locked>>

RunAdvance(t) ==
    /\ tasks[t].pc = "critical" /\ tasks[t].op = "advance"
    /\ Leave(t, AdvanceRoomBody(rooms, tasks[t].code, tasks[t].id))
    /\ UNCHANGED <<nextId, last, started, locked>>

RunSubmit(t) ==
    /\ tasks[t].pc = "critical" /\ tasks[t].op = "submit"
    /\ Leave(t, SubmitAnswerBody(rooms, tasks[t].code, tasks[t].id, tasks[t].answer))
    /\ UNCHANGED <<nextId, last, started, locked>>

\* faulty variant: the lock is released on return only, not on an exception
ReleaseOnReturn(t) ==
    /\ tasks[t].pc = "release"
    /\ locked' = (tasks[t].kind # "ok")
    /\ tasks' = [tasks EXCEPT ![t] =
                   IF tasks[t].op = "join" /\ tasks[t].kind = "ok"
                   THEN [@ EXCEPT !.pc = "return"]
                   ELSE [@ EXCEPT !.pc = "idle", !.code = <<>>, !.id = 0, !.answer = <<>>,
                                  !.resp = NoResp]]
    /\ UNCHANGED <<rooms, nextId, last, started, access>>

\* async with _room_lock: exit, by return or by exception.  What stays of a
\* finished call is its outcome; the value returned has gone to the caller.
Release(t) ==
    /\ tasks[t].pc = "release"
    /\ locked' = FALSE
    /\ tasks' = [tasks EXCEPT ![t] =
                   IF tasks[t].op = "join" /\ tasks[t].kind = "ok"
                   THEN [@ EXCEPT !.pc = "return"]
                   ELSE [@ EXCEPT !.pc = "idle", !.code = <<>>, !.id = 0, !.answer = <<>>,
                                  !.resp = NoResp]]
    /\ UNCHANGED <<rooms, nextId, last, started, access>>

\* join_room, lines 128-133: the return statement after the block
JoinReturn(t) ==
    /\ tasks[t].pc = "return"
    /\ tasks' = [tasks EXCEPT ![t].pc = "idle",
                              ![t].code = <<>>,
                              ![t].resp = JoinRoomResponse(rooms, tasks[t].code,
                                                           tasks[t].resp.player_id)]
    /\ Touch(t)
    /\ UNCHANGED <<rooms, nextId, last, started, locked>>

NextConc ==
    \E t \in Tasks :
       \/ CallCreate(t)
       \/ CallJoin(t)
       \/ CallState(t)
       \/ CallStart(t)
       \/ CallAdvance(t)
       \/ CallSubmit(t)
       \/ Acquire(t)
       \/ RunCreate(t)
       \/ RunJoin(t)
       \/ RunState(t)
       \/ RunStart(t)
       \/ RunAdvance(t)
       \/ RunSubmit(t)
       \/ Release(t)
       \/ JoinReturn(t)

SpecConc == Init /\ [][NextConc]_vars

(***************************************************************************)
(* Properties of the registry.  Each is stated over every reachable        *)
(* registry and every argument a client can pass in it: the result of an   *)
(* operation is the result record its body computes there.                 *)
(***************************************************************************)
\* the room a typed code reaches
RoomOf(code) == rooms[NormalizeCode(code)]

Reaches(code) == NormalizeCode(code) \in DOMAIN rooms

\* the typed codes that reach a live room
LiveRequestCodes == {code \in RequestCodes : Reaches(code)}

TotalQuestions(room) == Len(room.quiz.questions)

\* C1: once a player has answered the question the room is on, every further
\* submitAnswer of that player on that question fails with InvalidAction and
\* changes nothing; the score never exceeds the number of question indices the
\* player has answered, all of them at or below the current index.
C1_AtMostOneAnswerPerQuestion ==
    \A code \in LiveRequestCodes : \A player_id \in DOMAIN RoomOf(code).players :
       LET room == RoomOf(code)
           player == room.players[player_id]
       IN /\ (room.status = "in_progress"
              /\ room.current_question_index \in DOMAIN player.answers)
             => \A answer \in Answers :
                   SubmitAnswerBody(rooms, NormalizeCode(code), player_id, answer)
                      = Raise(rooms, "InvalidAction")
          /\ player.score <= Cardinality(DOMAIN player.answers)
          /\ \A i \in DOMAIN player.answers : 0 <= i /\ i <= room.current_question_index

C1_Witness ==
    /\ last.op = "submit" /\ last.kind = "InvalidAction"
    /\ Reaches(last.code)
    /\ RoomOf(last.code).status = "in_progress"
    /\ RoomOf(last.code).current_question_index = 1
    /\ \E player_id \in DOMAIN RoomOf(last.code).players :
          /\ DOMAIN RoomOf(last.code).players[player_id].answers = {0, 1}
          /\ RoomOf(last.code).players[player_id].score = 2

\* C2: right after a successful start the room is in progress on question 0
\* with no current answers, and the projection returned says so; a start with
\* the host credential on a room that was started before fails with
\* InvalidAction and changes nothing.
C2_StartOnce ==
    /\ (last.op = "start" /\ last.kind = "ok")
       => /\ RoomOf(last.code).status = "in_progress"
          /\ RoomOf(last.code).current_question_index = 0
          /\ RoomOf(last.code).answers = EmptyMap
          /\ last.resp.status = "in_progress"
          /\ last.resp.current_question_index = 0
          /\ \A i \in DOMAIN last.resp.players : ~last.resp.players[i].has_answered_current
    /\ \A code \in LiveRequestCodes :
          NormalizeCode(code) \in started
          => StartRoomBody(rooms, NormalizeCode(code), RoomOf(code).host_id)
                = Raise(rooms, "InvalidAction")

C2_Witness ==
    /\ last.op = "start" /\ last.kind = "InvalidAction"
    /\ NormalizeCode(last.code) \in started
    /\ RoomOf(last.code).status = "in_progress"
    /\ RoomOf(last.code).answers # EmptyMap

\* C3: a successful submitAnswer whose answer is exactly the correct-answer
\* string of the current question raises the player's score by 1, and one whose
\* trimmed answer differs from the correct-answer string leaves the score as
\* it was.
C3_ExactAnswerScores ==
    \A code \in LiveRequestCodes : \A player_id \in DOMAIN RoomOf(code).players :
       \A answer \in Answers :
          LET room == RoomOf(code)
              r == SubmitAnswerBody(rooms, NormalizeCode(code), player_id, answer)
              correct == room.quiz.questions[room.current_question_index + 1].answer
              before == room.players[player_id].score
              after == r.rooms[NormalizeCode(code)].players[player_id].score
          IN r.kind = "ok"
             => /\ answer = correct => after = before + 1
                /\ Strip(answer) # correct => after = before

\* C4: advance with the host credential on a room in progress on its last
\* question finishes the room and returns a projection without an active
\* question; every projection of a finished room has no active question; and
\* advance with the host credential on a finished room fails with
\* InvalidAction and changes nothing.
C4_AdvancePastLastFinishes ==
    /\ \A code \in LiveRequestCodes :
          LET room == RoomOf(code)
              r == AdvanceRoomBody(rooms, NormalizeCode(code), room.host_id)
          IN /\ (room.status = "in_progress"
                 /\ room.current_question_index = TotalQuestions(room) - 1)
                => /\ r.kind = "ok"
                   /\ r.rooms[NormalizeCode(code)].status = "finished"
                   /\ r.resp.status = "finished"
                   /\ r.resp.question = NoQuestion
             /\ room.status = "finished"
                => /\ r = Raise(rooms, "InvalidAction")
                   /\ BuildRoomState(room).question = NoQuestion
                   /\ GetRoomStateBody(rooms, NormalizeCode(code)).resp.question = NoQuestion
    /\ (last.op \in {"state", "start", "advance", "submit"} /\ last.kind = "ok"
        /\ RoomOf(last.code).status = "finished")
       => last.resp.question = NoQuestion

C4_Witness ==
    /\ last.op = "advance" /\ last.kind = "ok"
    /\ RoomOf(last.code).status = "finished"
    /\ RoomOf(last.code).current_question_index = 1
    /\ TotalQuestions(RoomOf(last.code)) = 2
    /\ last.resp.question = NoQuestion

\* the effect C5 describes, for a room a typed code reaches
AdvanceMovesOn(code) ==
    LET room == RoomOf(code)
        r == AdvanceRoomBody(rooms, NormalizeCode(code), room.host_id)
        room2 == r.rooms[NormalizeCode(code)]
    IN /\ r.kind = "ok"
       /\ room2.current_question_index = room.current_question_index + 1
       /\ room2.status = "in_progress"
       /\ room2.answers = EmptyMap
       /\ r.resp.current_question_index = room.current_question_index + 1
       /\ Len(r.resp.players) = Cardinality(DOMAIN room.players)
       /\ \A i \in DOMAIN r.resp.players : ~r.resp.players[i].has_answered_current
       /\ room2.players = room.players
       /\ \A other \in DOMAIN rooms \ {NormalizeCode(code)} : r.rooms[other] = rooms[other]

\* C5 as stated: advance with the host credential on a room in progress that
\* is not at its last question (index # total - 1) moves to the next question.
C5_AdvanceNotAtLast ==
    \A code \in LiveRequestCodes :
       (RoomOf(code).status = "in_progress"
        /\ RoomOf(code).current_question_index # TotalQuestions(RoomOf(code)) - 1)
       => AdvanceMovesOn(code)

\* C5 amended: advance with the host credential on a room in progress whose
\* index is below that of its last question (index < total - 1) raises the
\* index by exactly 1, keeps the room in progress, clears the current answers
\* so that no player has answered in the projection returned, and leaves
\* every player's score and history, and every other room, as they were.
C5_AdvanceBeforeLast ==
    \A code \in LiveRequestCodes :
       (RoomOf(code).status = "in_progress"
        /\ RoomOf(code).current_question_index < TotalQuestions(RoomOf(code)) - 1)
       => AdvanceMovesOn(code)

C5_Witness ==
    /\ last.op = "advance" /\ last.kind = "ok"
    /\ RoomOf(last.code).status = "in_progress"
    /\ RoomOf(last.code).current_question_index = 1
    /\ Cardinality(DOMAIN RoomOf(last.code).players) = 2
    /\ \E player_id \in DOMAIN RoomOf(last.code).players :
          /\ 0 \in DOMAIN RoomOf(last.code).players[player_id].answers
          /\ RoomOf(last.code).players[player_id].score = 1
    /\ \A i \in DOMAIN last.resp.players : ~last.resp.players[i].has_answered_current

\* C6: start and advance with an identifier other than the room's host
\* credential fail with Unauthorized and change nothing, whatever the room's
\* status and however many players it has.
C6_ForgedHostRejected ==
    \A code \in LiveRequestCodes : \A host_id \in IdInputs :
       host_id # RoomOf(code).host_id
       => /\ StartRoomBody(rooms, NormalizeCode(code), host_id) = Raise(rooms, "Unauthorized")
          /\ AdvanceRoomBody(rooms, NormalizeCode(code), host_id) = Raise(rooms, "Unauthorized")

C6_Witness ==
    /\ last.op = "start" /\ last.kind = "Unauthorized"
    /\ RoomOf(last.code).status = "in_progress"
    /\ DOMAIN RoomOf(last.code).players # {}

\* C7: start with the host credential on a waiting room without players fails
\* with InvalidAction; the room stays waiting, with no question index.
C7_StartNeedsPlayer ==
    \A code \in LiveRequestCodes :
       LET room == RoomOf(code)
           r == StartRoomBody(rooms, NormalizeCode(code), room.host_id)
       IN (room.status = "waiting" /\ DOMAIN room.players = {})
          => /\ r = Raise(rooms, "InvalidAction")
             /\ r.rooms[NormalizeCode(code)].status = "waiting"
             /\ r.rooms[NormalizeCode(code)].current_question_index = None

C7_Witness ==
    /\ last.op = "start" /\ last.kind = "InvalidAction"
    /\ RoomOf(last.code).status = "waiting"
    /\ DOMAIN RoomOf(last.code).players = {}
    /\ RoomOf(last.code).current_question_index = None

\* C8: a join, getState, start, advance or submitAnswer that fails, with a
\* room error or with an unclassified one, returns the registry it was given:
\* no room, status, index, player, score, history or current answer differs.
C8_FailureChangesNothing ==
    /\ \A code \in RequestCodes :
          /\ \A player_name \in Names :
                LET r == JoinRoomBody(rooms, NormalizeCode(code), nextId, player_name)
                IN r.kind # "ok" => r.rooms = rooms
          /\ LET r == GetRoomStateBody(rooms, NormalizeCode(code))
             IN r.kind # "ok" => r.rooms = rooms
          /\ \A id \in IdInputs :
                /\ LET r == StartRoomBody(rooms, NormalizeCode(code), id)
                   IN r.kind # "ok" => r.rooms = rooms
                /\ LET r == AdvanceRoomBody(rooms, NormalizeCode(code), id)
                   IN r.kind # "ok" => r.rooms = rooms
                /\ \A answer \in Answers :
                      LET r == SubmitAnswerBody(rooms, NormalizeCode(code), id, answer)
                      IN r.kind # "ok" => r.rooms = rooms

C8_Witness ==
    /\ last.op = "submit" /\ last.kind = "IndexError"
    /\ RoomOf(last.code).status = "in_progress"
    /\ RoomOf(last.code).answers = EmptyMap

\* C9: every read and every write of room state is made by a coroutine that
\* holds the registry lock, the reads that build the returned value included,
\* and at most one coroutine holds the lock at a time.
C9_EveryAccessUnderLock ==
    /\ access.held
    /\ Cardinality({t \in Tasks : HoldsLock(t)}) <= 1

\* the two calls of a race have both returned
RaceOver(t, u) ==
    /\ t # u
    /\ tasks[t].pc = "idle" /\ tasks[u].pc = "idle"
    /\ tasks[t].op = "submit" /\ tasks[u].op = "submit"
    /\ tasks[t].race # NoRace
    /\ tasks[u].race = tasks[t].race

\* C10: of two submitAnswer calls for the same player and room that are in
\* flight together on a question the player has not answered, one succeeds
\* and the other fails with InvalidAction, whatever the order in which they
\* get the lock; the player's score rises by at most 1, and the history and
\* the current answers hold one entry for that question.
C10_RacingSubmitsOneWins ==
    \A t \in Tasks, u \in Tasks :
       RaceOver(t, u)
       => LET race == tasks[t].race
              room == rooms[race.code]
              player == room.players[race.player_id]
          IN /\ {tasks[t].kind, tasks[u].kind} = {"ok", "InvalidAction"}
             /\ race.score0 <= player.score /\ player.score <= race.score0 + 1
             /\ race.index \in DOMAIN player.answers
             /\ player.score = race.score0 + (IF player.answers[race.index].is_correct THEN 1 ELSE 0)
             /\ room.current_question_index = race.index
             /\ race.player_id \in DOMAIN room.answers

C10_Witness ==
    \E t \in Tasks, u \in Tasks :
       /\ RaceOver(t, u)
       /\ tasks[t].kind = "InvalidAction" /\ tasks[u].kind = "ok"
       /\ rooms[tasks[t].race.code].players[tasks[t].race.player_id].score = tasks[t].race.score0 + 1

(***************************************************************************)
(* The projections clients receive.                                        *)
(***************************************************************************)
\* the fields of RoomStateResponse, RoomPlayerState and ActiveQuestion
ProjectionFields == {"room_code", "status", "quiz_title", "difficulty",
                     "current_question_index", "question_count", "players", "question"}
PlayerFields == {"player_id", "name", "score", "has_answered_current"}
ActiveQuestionFields == {"question_index", "question_number", "question", "choices",
                         "total_questions"}

\* the outcomes the four projecting operations can have in the present
\* registry, over every argument a client can pass
StateResults == {GetRoomStateBody(rooms, NormalizeCode(code)) : code \in RequestCodes}
StartResults == {StartRoomBody(rooms, NormalizeCode(code), host_id) :
                    code \in RequestCodes, host_id \in IdInputs}
AdvanceResults == {AdvanceRoomBody(rooms, NormalizeCode(code), host_id) :
                      code \in RequestCodes, host_id \in IdInputs}
SubmitResults == {SubmitAnswerBody(rooms, NormalizeCode(code), player_id, answer) :
                     code \in RequestCodes, player_id \in IdInputs, answer \in Answers}

\* the projections returned
Projections == {r.resp : r \in {x \in StateResults \cup StartResults
                                      \cup AdvanceResults \cup SubmitResults : x.kind = "ok"}}

\* the room with the answer of every question replaced by a
WithAnswers(room, a) ==
    [room EXCEPT !.quiz.questions = [i \in DOMAIN @ |-> [@[i] EXCEPT !.answer = a]]]

\* C11: no projection carries a question's correct answer.  Every projection
\* returned by get_room_state, start_room, advance_room and submit_answer has
\* exactly the fields of RoomStateResponse, its players exactly those of
\* RoomPlayerState and its question, when present, exactly index, number,
\* text, choices and total; and the projection of a room is the same
\* whatever the answers of its questions are.
C11_ProjectionHidesAnswer ==
    /\ \A p \in Projections :
          /\ DOMAIN p = ProjectionFields
          /\ \A i \in DOMAIN p.players : DOMAIN p.players[i] = PlayerFields
          /\ p.question # NoQuestion => DOMAIN p.question = ActiveQuestionFields
    /\ \A code \in DOMAIN rooms, a \in Answers :
          BuildRoomState(WithAnswers(rooms[code], a)) = BuildRoomState(rooms[code])

\* a submission has returned a projection with the active question, whose
\* choices hold the correct answer among the others
C11_Witness ==
    /\ last.op = "submit" /\ last.kind = "ok"
    /\ last.resp.question # NoQuestion
    /\ LET room == RoomOf(last.code)
           answer == room.quiz.questions[room.current_question_index + 1].answer
           choices == last.resp.question.choices
       IN /\ \E i \in DOMAIN choices : choices[i] = answer
          /\ \E i \in DOMAIN choices : choices[i] # answer

\* a step of the registry keeps every live room under its code, with its host
\* and its quiz; a create_room block that runs returns a code of
\* ROOM_CODE_LENGTH characters of the alphabet that was not the code of any
\* live room and is the code of the new one; after the step every room is
\* filed under its own code and no two rooms have the same host.
CreateKeepsRooms ==
    /\ \A c \in DOMAIN rooms :
          /\ c \in DOMAIN rooms'
          /\ rooms'[c].host_id = rooms[c].host_id
          /\ rooms'[c].quiz = rooms[c].quiz
    /\ \A t \in Tasks :
          (tasks[t].pc = "critical" /\ tasks[t].op = "create" /\ tasks'[t].pc = "release")
          => /\ tasks'[t].kind = "ok"
             /\ LET code == tasks'[t].resp.room_code
                IN /\ Len(code) = ROOM_CODE_LENGTH
                   /\ \A i \in 1..Len(code) : code[i] \in ROOM_CODE_ALPHABET
                   /\ code \notin DOMAIN rooms
                   /\ DOMAIN rooms' = DOMAIN rooms \cup {code}
                   /\ rooms'[code].host_id = tasks'[t].resp.host_id
    /\ \A c \in DOMAIN rooms' : rooms'[c].code = c
    /\ \A c, d \in DOMAIN rooms' : c # d => rooms'[c].host_id # rooms'[d].host_id

\* C12: every successful create_room returns a code of 6 characters of the
\* alphabet that differs from the code of every room live at that moment, so
\* that, creates running side by side included, no two live rooms share a
\* code and a create never overwrites a room.
C12_CreateTakesFreshCode == [][CreateKeepsRooms]_vars

\* both coroutines have created a room, the second while the first room was live
C12_Witness ==
    /\ Cardinality(DOMAIN rooms) = 2
    /\ \E t, u \in Tasks :
          /\ t # u
          /\ tasks[t].op = "create" /\ tasks[t].pc = "release" /\ tasks[t].kind = "ok"
          /\ tasks[t].resp.room_code \in DOMAIN rooms
          /\ tasks[u].op = "create" /\ tasks[u].pc = "idle" /\ tasks[u].kind = "ok"

\* C13: a room just created by create_room has status waiting, no current
\* question index, no players and no current answers; it stores the host id
\* returned and the quiz supplied; the host is not one of its players, then
\* or later; the rooms already live are as they were.
C13_CreatedRoomIsFresh ==
    /\ \A code \in GenerateRoomCode(rooms), host_name \in HostNames,
          quiz \in Quizzes, difficulty \in Difficulties :
          LET r == CreateRoomBody(rooms, code, nextId, host_name, quiz, difficulty)
              room == r.rooms[code]
          IN /\ r.kind = "ok"
             /\ r.resp.room_code = code
             /\ r.resp.quiz = quiz
             /\ room.status = "waiting"
             /\ room.current_question_index = None
             /\ room.players = EmptyMap
             /\ room.answers = EmptyMap
             /\ room.host_id = r.resp.host_id
             /\ room.quiz = quiz
             /\ room.host_id \notin DOMAIN room.players
             /\ BuildRoomState(room).players = <<>>
             /\ DOMAIN r.rooms = DOMAIN rooms \cup {code}
             /\ \A other \in DOMAIN rooms : r.rooms[other] = rooms[other]
    /\ \A code \in DOMAIN rooms : rooms[code].host_id \notin DOMAIN rooms[code].players

\* a second room has just been created beside one whose game is under way
C13_Witness ==
    /\ last.op = "create" /\ last.kind = "ok"
    /\ RoomOf(last.code).status = "waiting"
    /\ RoomOf(last.code).players = EmptyMap
    /\ RoomOf(last.code).host_id = last.resp.host_id
    /\ RoomOf(last.code).quiz = QuizCapitals
    /\ \E other \in DOMAIN rooms : /\ rooms[other].status = "in_progress"
                                   /\ rooms[other].answers # EmptyMap

\* C14: join_room with a code that, once normalized, is the code of no live
\* room raises RoomNotFound and leaves every room, and so every player set,
\* as it was.
C14_JoinUnknownCode ==
    \A code \in RequestCodes, player_name \in Names :
       ~Reaches(code)
       => LET r == JoinRoomBody(rooms, NormalizeCode(code), nextId, player_name)
          IN /\ r.kind = "RoomNotFound"
             /\ r.resp = NoResp
             /\ r.rooms = rooms

\* a join with the code of no room has failed while a room with a player is live
C14_Witness ==
    /\ last.op = "join" /\ last.kind = "RoomNotFound"
    /\ last.code = CodeZ
    /\ ~Reaches(last.code)
    /\ \E code \in DOMAIN rooms : DOMAIN rooms[code].players # {}

\* C15: join_room on a live room succeeds whatever the room's status: the
\* room gains exactly one player, under an id no room has seen, with score 0
\* and no answers, whom the projection shows as not having answered; the
\* status, the question index, the current answers and the players already
\* there are unchanged, as is every other room; a name already taken is
\* accepted; the status returned is the room's status at the insertion.
C15_JoinAddsOnePlayer ==
    \A code \in LiveRequestCodes, player_name \in Names :
       LET normalized_code == NormalizeCode(code)
           room == rooms[normalized_code]
           r == JoinRoomBody(rooms, normalized_code, nextId, player_name)
           room2 == r.rooms[normalized_code]
           resp == JoinRoomResponse(r.rooms, normalized_code, r.resp.player_id)
           shown == BuildRoomState(room2).players
       IN /\ r.kind = "ok"
          /\ r.resp.player_id = nextId
          /\ \A c \in DOMAIN rooms : nextId # rooms[c].host_id /\ nextId \notin DOMAIN rooms[c].players
          /\ DOMAIN room2.players = DOMAIN room.players \cup {nextId}
          /\ room2.players[nextId] =
                [id |-> nextId, name |-> player_name, score |-> 0, answers |-> EmptyMap]
          /\ \A p \in DOMAIN room.players : room2.players[p] = room.players[p]
          /\ room2 = [room EXCEPT !.players = room2.players]
          /\ DOMAIN r.rooms = DOMAIN rooms
          /\ \A other \in DOMAIN rooms \ {normalized_code} : r.rooms[other] = rooms[other]
          /\ Len(shown) = Cardinality(DOMAIN room.players) + 1
          /\ \A i \in DOMAIN shown :
                shown[i].player_id = nextId
                => ~shown[i].has_answered_current /\ shown[i].score = 0
          /\ resp.room_code = normalized_code
          /\ resp.player_id = nextId
          /\ resp.quiz_title = room.quiz.quiz_title
          /\ resp.status = room.status

\* a player has joined a finished room that already had a player of that name
C15_Witness ==
    /\ last.op = "join" /\ last.kind = "ok"
    /\ last.resp.status = "finished"
    /\ RoomOf(last.code).status = "finished"
    /\ \E p, q \in DOMAIN RoomOf(last.code).players :
          /\ p # q
          /\ q = last.resp.player_id
          /\ RoomOf(last.code).players[p].name = RoomOf(last.code).players[q].name
          /\ RoomOf(last.code).players[p].score = 1
          /\ RoomOf(last.code).players[q].score = 0

\* identifiers a client can present, the next one to be issued included
AnyIds == IdInputs \cup {nextId}

ReturnsFreshState(code, r) ==
    r.kind = "ok"
    => LET seen == GetRoomStateBody(r.rooms, NormalizeCode(code))
       IN seen.kind = "ok" /\ seen.resp = r.resp

\* C17: get_room_state with a code that reaches a room returns its
\* projection, with an unknown code raises RoomNotFound, and never changes
\* the registry; the projection start_room, advance_room and submit_answer
\* return is the one get_room_state returns on the state right after them.
C17_StateIsReadOnlyAndFresh ==
    /\ \A code \in RequestCodes :
          LET r == GetRoomStateBody(rooms, NormalizeCode(code))
          IN /\ r.rooms = rooms
             /\ IF Reaches(code)
                THEN r.kind = "ok" /\ r.resp = BuildRoomState(RoomOf(code))
                ELSE r.kind = "RoomNotFound" /\ r.resp = NoResp
    /\ \A code \in RequestCodes, id \in AnyIds :
          /\ ReturnsFreshState(code, StartRoomBody(rooms, NormalizeCode(code), id))
          /\ ReturnsFreshState(code, AdvanceRoomBody(rooms, NormalizeCode(code), id))
          /\ \A answer \in Answers :
                ReturnsFreshState(code, SubmitAnswerBody(rooms, NormalizeCode(code), id, answer))

\* get_room_state has just returned the projection of a room in progress on
\* its second question, one player having answered it
C17_Witness ==
    /\ last.op = "state" /\ last.kind = "ok"
    /\ last.resp = BuildRoomState(RoomOf(last.code))
    /\ last.resp.status = "in_progress"
    /\ last.resp.current_question_index = 1
    /\ \E i \in DOMAIN last.resp.players : last.resp.players[i].has_answered_current

\* C18: the current question index of a room is absent while the room is
\* waiting or finished, and is an index into the questions of the quiz while
\* it is in progress (for a quiz with at least one question); the
\* current_question_index of the projection is the same.
C18_IndexAbsentUnlessInProgress ==
    \A code \in DOMAIN rooms :
       LET room == rooms[code]
           shown == BuildRoomState(room).current_question_index
       IN /\ shown = room.current_question_index
          /\ room.status \in {"waiting", "finished"} => room.current_question_index = None
          /\ (room.status = "in_progress" /\ TotalQuestions(room) >= 1)
             => room.current_question_index \in 0..(TotalQuestions(room) - 1)

\* C19: in the projection of every room each player appears once, and
\* has_answered_current is true exactly when the room is in progress, has a
\* current question index and holds the player's id among its current
\* answers; it is false for every player of a waiting or finished room; and
\* a submission that succeeds shows its player as having answered, whether
\* the answer was the correct one or not.
C19_HasAnsweredCurrent ==
    /\ \A code \in DOMAIN rooms :
          LET room == rooms[code]
              shown == BuildRoomState(room).players
          IN /\ Len(shown) = Cardinality(DOMAIN room.players)
             /\ {shown[i].player_id : i \in DOMAIN shown} = DOMAIN room.players
             /\ \A i \in DOMAIN shown :
                   shown[i].has_answered_current
                   <=> /\ room.status = "in_progress"
                       /\ room.current_question_index # None
                       /\ shown[i].player_id \in DOMAIN room.answers
             /\ room.status \in {"waiting", "finished"}
                => \A i \in DOMAIN shown : ~shown[i].has_answered_current
    /\ \A code \in LiveRequestCodes, player_id \in AnyIds, answer \in Answers :
          LET r == SubmitAnswerBody(rooms, NormalizeCode(code), player_id, answer)
          IN r.kind = "ok"
             => \E i \in DOMAIN r.resp.players :
                   /\ r.resp.players[i].player_id = player_id
                   /\ r.resp.players[i].has_answered_current

\* a wrong answer has just been taken: of two players who have both answered
\* the current question, one has scored and the other has not
C19_Witness ==
    /\ last.op = "submit" /\ last.kind = "ok"
    /\ \E i, j \in DOMAIN last.resp.players :
          /\ last.resp.players[i].has_answered_current
          /\ last.resp.players[i].score = 0
          /\ last.resp.players[j].has_answered_current
          /\ last.resp.players[j].score = 1
    /\ RoomOf(last.code).current_question_index = 0

\* C20: the projection of a room carries an ActiveQuestion exactly when the
\* room is in progress and its current question index is an index into the
\* quiz; the view's index is then the current index, its number the index
\* plus one, its text and choices those of that question and its total the
\* number of questions; waiting and finished rooms carry none.  The
\* projections the operations return are built the same way.
C20_ActiveQuestionView ==
    /\ \A code \in DOMAIN rooms :
          LET room == rooms[code]
              current_index == room.current_question_index
              shown == BuildRoomState(room).question
          IN /\ shown # NoQuestion
                <=> /\ room.status = "in_progress"
                    /\ current_index # None
                    /\ current_index \in 0..(TotalQuestions(room) - 1)
             /\ shown # NoQuestion
                => /\ shown.question_index = current_index
                   /\ shown.question_number = current_index + 1
                   /\ shown.question = room.quiz.questions[current_index + 1].question
                   /\ shown.choices = room.quiz.questions[current_index + 1].choices
                   /\ shown.total_questions = TotalQuestions(room)
             /\ room.status \in {"waiting", "finished"} => shown = NoQuestion
    /\ \A p \in Projections :
          IF p.question = NoQuestion
          THEN \/ p.status # "in_progress"
               \/ p.current_question_index \notin 0..(p.question_count - 1)
          ELSE /\ p.status = "in_progress"
               /\ p.question.question_index = p.current_question_index
               /\ p.question.question_number = p.current_question_index + 1
               /\ p.question.total_questions = p.question_count

\* advance_room has just returned the second of two questions as the active one
C20_Witness ==
    /\ last.op = "advance" /\ last.kind = "ok"
    /\ last.resp.question # NoQuestion
    /\ last.resp.question.question_index = 1
    /\ last.resp.question.question_number = 2
    /\ last.resp.question.question = "q2"
    /\ last.resp.question.total_questions = 2
    /\ RoomOf(last.code).current_question_index = 1

\* the rooms of rs2 that were in rs have the status and question index they had
SameProgress(rs, rs2) ==
    \A c \in DOMAIN rs :
       /\ c \in DOMAIN rs2
       /\ rs2[c].status = rs[c].status
       /\ rs2[c].current_question_index = rs[c].current_question_index

\* as SameProgress, but for the room under code
SameProgressElsewhere(rs, rs2, code) ==
    \A c \in DOMAIN rs \ {code} :
       /\ c \in DOMAIN rs2
       /\ rs2[c].status = rs[c].status
       /\ rs2[c].current_question_index = rs[c].current_question_index

\* C21: the status and the current question index of a room change only by
\* a start_room or an advance_room that succeeds, which carries the room's
\* host id and changes that room alone; create_room, join_room,
\* get_room_state and submit_answer, and every call that fails, leave the
\* status and the index of every room as they were.
C21_ProgressIsHostDriven ==
    /\ \A code \in GenerateRoomCode(rooms), host_name \in HostNames,
          quiz \in Quizzes, difficulty \in Difficulties :
          SameProgress(rooms, CreateRoomBody(rooms, code, nextId, host_name, quiz, difficulty).rooms)
    /\ \A code \in RequestCodes :
          /\ \A player_name \in Names :
                SameProgress(rooms, JoinRoomBody(rooms, NormalizeCode(code), nextId, player_name).rooms)
          /\ SameProgress(rooms, GetRoomStateBody(rooms, NormalizeCode(code)).rooms)
          /\ \A id \in AnyIds :
                /\ \A answer \in Answers :
                      SameProgress(rooms, SubmitAnswerBody(rooms, NormalizeCode(code), id, answer).rooms)
                /\ \A r \in {StartRoomBody(rooms, NormalizeCode(code), id),
                             AdvanceRoomBody(rooms, NormalizeCode(code), id)} :
                      IF r.kind = "ok"
                      THEN /\ id = RoomOf(code).host_id
                           /\ SameProgressElsewhere(rooms, r.rooms, NormalizeCode(code))
                      ELSE SameProgress(rooms, r.rooms)

\* the last of two players has just answered the first question of two, and
\* the room is still on that question
C21_Witness ==
    /\ last.op = "submit" /\ last.kind = "ok"
    /\ RoomOf(last.code).status = "in_progress"
    /\ RoomOf(last.code).current_question_index = 0
    /\ TotalQuestions(RoomOf(last.code)) = 2
    /\ Cardinality(DOMAIN RoomOf(last.code).players) = 2
    /\ DOMAIN RoomOf(last.code).answers = DOMAIN RoomOf(last.code).players

\* a code as a client may type it: in lower case, with blanks around it, or both
LowerChar(c) == CASE c = "A" -> "a"
                  [] c = "Z" -> "z"
                  [] OTHER -> c

Lower(s) == [i \in 1..Len(s) |-> LowerChar(s[i])]

Typings(code) == {code, Lower(code), <<" ">> \o code, code \o <<" ">>,
                  <<" ">> \o Lower(code) \o <<" ">>, <<" ", " ">> \o code \o <<" ">>}

\* C22: join_room, get_room_state, start_room, advance_room and
\* submit_answer look the room up by the normalized code: a code that
\* differs from a live room's code only by letter case or by blanks at its
\* ends normalizes to that code, so every operation given it does what it
\* does given the room's own code, and join_room returns the normalized code.
C22_LookupByNormalizedCode ==
    \A code \in DOMAIN rooms : \A typed \in Typings(code) :
       LET normalized_code == NormalizeCode(typed)
       IN /\ normalized_code = code
          /\ normalized_code \in DOMAIN rooms
          /\ GetRoomStateBody(rooms, normalized_code) = GetRoomStateBody(rooms, code)
          /\ GetRoomStateBody(rooms, normalized_code).kind = "ok"
          /\ \A player_name \in Names :
                LET r == JoinRoomBody(rooms, normalized_code, nextId, player_name)
                IN /\ r = JoinRoomBody(rooms, code, nextId, player_name)
                   /\ r.kind = "ok"
                   /\ JoinRoomResponse(r.rooms, normalized_code, nextId).room_code = code
          /\ \A id \in AnyIds :
                /\ StartRoomBody(rooms, normalized_code, id) = StartRoomBody(rooms, code, id)
                /\ StartRoomBody(rooms, normalized_code, id).kind # "RoomNotFound"
                /\ AdvanceRoomBody(rooms, normalized_code, id) = AdvanceRoomBody(rooms, code, id)
                /\ AdvanceRoomBody(rooms, normalized_code, id).kind # "RoomNotFound"
                /\ \A answer \in Answers :
                      /\ SubmitAnswerBody(rooms, normalized_code, id, answer)
                            = SubmitAnswerBody(rooms, code, id, answer)
                      /\ SubmitAnswerBody(rooms, normalized_code, id, answer).kind # "RoomNotFound"

\* a player who joined under the code typed in lower case between blanks was
\* given the room's code, and an answer sent under the typed code has been taken
C22_Witness ==
    /\ last.op = "submit" /\ last.kind = "ok"
    /\ last.code = Code7Typed
    /\ last.code \in Typings(Code7) \ {Code7}
    /\ last.resp.room_code = Code7
    /\ DOMAIN rooms[Code7].answers # {}

(***************************************************************************)
(* create_room with the loop of _generate_room_code step by step.  While   *)
(* the loop runs, last is the draw just made; nothing else runs meanwhile, *)
(* the loop having no await.  The random source is fair: a code that can   *)
(* be drawn again and again is drawn in the end.                           *)
(***************************************************************************)
\* the loop of _generate_room_code is running
Drawing == last.op = "draw"

\* line 43: a code is drawn
Draw(code) ==
    /\ last' = [op |-> "draw", code |-> code, kind |-> "ok", resp |-> NoResp]
    /\ UNCHANGED <<rooms, nextId, started, locked, tasks, access>>

\* create_room is called and the loop makes its first draw
CallCreateRoom ==
    /\ ~Drawing
    /\ nextId <= MaxIds
    /\ \E code \in CodeDraws : Draw(code)

\* lines 42-44: the code drawn is taken, the loop draws again
RetryDraw ==
    /\ Drawing
    /\ ~CodeIsFree(last.code, rooms)
    /\ \E code \in CodeDraws : Draw(code)

\* the draws of RetryDraw that end the loop
DrawFreeCode ==
    /\ Drawing
    /\ ~CodeIsFree(last.code, rooms)
    /\ \E code \in CodeDraws : code \notin DOMAIN rooms /\ Draw(code)

\* lines 44-45 and 102-114: the code drawn is free; it is returned and the
\* room is created under it
ReturnRoomCode ==
    /\ Drawing
    /\ CodeIsFree(last.code, rooms)
    /\ \E host_name \in HostNames, quiz \in Quizzes, difficulty \in Difficulties :
          Finish("create", last.code,
                 CreateRoomBody(rooms, last.code, nextId, host_name, quiz, difficulty))
    /\ nextId' = nextId + 1
    /\ UNCHANGED <<started, locked, tasks, access>>

JoinBetweenCreates == ~Drawing /\ JoinRoom

StateBetweenCreates == ~Drawing /\ GetRoomState

NextGen ==
    \/ CallCreateRoom
    \/ RetryDraw
    \/ ReturnRoomCode
    \/ JoinBetweenCreates
    \/ StateBetweenCreates

SpecGen == Init /\ [][NextGen]_vars /\ WF_vars(DrawFreeCode) /\ WF_vars(ReturnRoomCode)

\* a create_room returns in this step
CreateReturns == Drawing /\ last'.op = "create"

\* C23: the code of a new room comes from a loop that tests each draw
\* against the live rooms: create_room never returns a code that is live,
\* whatever was drawn, and leaves the live rooms as they are; and whenever
\* some code is not live, a create_room that has been called returns.
C23_CodeLoopReturnsFreeCode ==
    /\ [][CreateReturns => /\ last'.code \notin DOMAIN rooms
                           /\ DOMAIN rooms' = DOMAIN rooms \cup {last'.code}
                           /\ \A c \in DOMAIN rooms : rooms'[c] = rooms[c]]_vars
    /\ (Drawing /\ CodeDraws \ DOMAIN rooms # {}) ~> (last.op = "create")

\* the loop has drawn the code of a live room while another code is free
C23_Witness ==
    /\ Drawing
    /\ last.code \in DOMAIN rooms
    /\ CodeDraws \ DOMAIN rooms # {}
    /\ DOMAIN rooms[last.code].players # {}

(***************************************************************************)
(* The coroutines under a fair event loop: a coroutine that can run its    *)
(* next lines does run them, and asyncio.Lock hands the lock to its        *)
(* waiters in the order they came, so that a coroutine waiting for a lock  *)
(* that is free again and again gets it.  Clients need not call.           *)
(***************************************************************************)
\* the lines of a coroutine from the entry of its block to its return
TaskStep(t) ==
    \/ RunCreate(t)
    \/ RunJoin(t)
    \/ RunState(t)
    \/ RunStart(t)
    \/ RunAdvance(t)
    \/ RunSubmit(t)
    \/ Release(t)
    \/ JoinReturn(t)

SpecConcFair ==
    /\ Init /\ [][NextConc]_vars
    /\ \A t \in Tasks : SF_vars(Acquire(t)) /\ WF_vars(TaskStep(t))

\* a create_room holds the lock in the loop of _generate_room_code with
\* every code taken: no draw passes the test of line 44
Spinning ==
    \E t \in Tasks : /\ tasks[t].pc = "critical"
                     /\ tasks[t].op = "create"
                     /\ GenerateRoomCode(rooms) \cap ConcCodeDraws = {}

\* C24 as stated: the lock is held only inside a block, and every call made,
\* whether it waits for the lock or holds it, returns (so the lock it waits
\* for is given to it and the lock it holds is released).
C24_EveryCallCompletes ==
    /\ [](locked <=> \E t \in Tasks : HoldsLock(t))
    /\ \A t \in Tasks : (tasks[t].pc # "idle") ~> (tasks[t].pc = "idle")

\* C24, amended: the lock is held only inside a block, so it is released on
\* every exit from one, by return or by any exception; every call made,
\* whether it waits for the lock or holds it, returns, unless a create_room
\* is looping with every code taken.
C24_CallsCompleteUnlessSpinning ==
    /\ [](locked <=> \E t \in Tasks : HoldsLock(t))
    /\ \A t \in Tasks : (tasks[t].pc # "idle") ~> (tasks[t].pc = "idle" \/ Spinning)

\* a submit_answer has failed with the index error and returned, and the
\* other coroutine is now inside its own block
C24_Witness ==
    \E t, u \in Tasks :
       /\ tasks[t].op = "submit" /\ tasks[t].kind = "IndexError" /\ tasks[t].pc = "idle"
       /\ tasks[u].pc = "critical"
       /\ locked

\* the three errors of the registry
RoomErrors == {"RoomNotFound", "Unauthorized", "InvalidAction"}

\* C25: create_room accepts a quiz without questions; start_room on such a
\* room succeeds with index 0 and a projection without active question;
\* submit_answer by a player of the started room then fails with the index
\* error, which is none of the three room errors, and writes nothing; one
\* advance_room by the host finishes the room.
C25_EmptyQuiz ==
    /\ \A code \in GenerateRoomCode(rooms), host_name \in HostNames, difficulty \in Difficulties :
          LET r == CreateRoomBody(rooms, code, nextId, host_name, QuizEmpty, difficulty)
          IN r.kind = "ok" /\ r.rooms[code].quiz = QuizEmpty /\ TotalQuestions(r.rooms[code]) = 0
    /\ \A code \in DOMAIN rooms :
          LET room == rooms[code]
              started_now == StartRoomBody(rooms, code, room.host_id)
              advanced == AdvanceRoomBody(rooms, code, room.host_id)
          IN TotalQuestions(room) = 0
             => /\ (room.status = "waiting" /\ DOMAIN room.players # {})
                   => /\ started_now.kind = "ok"
                      /\ started_now.rooms[code].status = "in_progress"
                      /\ started_now.rooms[code].current_question_index = 0
                      /\ started_now.resp.current_question_index = 0
                      /\ started_now.resp.question = NoQuestion
                /\ room.status = "in_progress"
                   => /\ room.current_question_index = 0
                      /\ BuildRoomState(room).question = NoQuestion
                      /\ \A player_id \in DOMAIN room.players, answer \in Answers :
                            LET r == SubmitAnswerBody(rooms, code, player_id, answer)
                            IN /\ r.kind = "IndexError"
                               /\ r.kind \notin RoomErrors
                               /\ r.rooms = rooms
                      /\ advanced.kind = "ok"
                      /\ advanced.rooms[code].status = "finished"
                      /\ advanced.resp.status = "finished"

\* a room without questions, started with two players, has been finished by
\* one advance
C25_Witness ==
    /\ last.op = "advance" /\ last.kind = "ok"
    /\ TotalQuestions(RoomOf(last.code)) = 0
    /\ RoomOf(last.code).status = "finished"
    /\ RoomOf(last.code).current_question_index = 0
    /\ Cardinality(DOMAIN RoomOf(last.code).players) = 2
    /\ \A p \in DOMAIN RoomOf(last.code).players :
          RoomOf(last.code).players[p].score = 0 /\ RoomOf(last.code).players[p].answers = EmptyMap

\* the number of entries of a player's answer history marked correct
CorrectCount(player) == Cardinality({i \in DOMAIN player.answers : player.answers[i].is_correct})

\* every result one operation can return from the current registry
OperationResults ==
    {CreateRoomBody(rooms, code, nextId, host_name, quiz, difficulty) :
        code \in GenerateRoomCode(rooms), host_name \in HostNames,
        quiz \in Quizzes, difficulty \in Difficulties}
    \cup {JoinRoomBody(rooms, NormalizeCode(code), nextId, player_name) :
        code \in RequestCodes, player_name \in Names}
    \cup {StartRoomBody(rooms, NormalizeCode(code), id) : code \in RequestCodes, id \in AnyIds}
    \cup {AdvanceRoomBody(rooms, NormalizeCode(code), id) : code \in RequestCodes, id \in AnyIds}
    \cup {SubmitAnswerBody(rooms, NormalizeCode(code), id, answer) :
        code \in RequestCodes, id \in AnyIds, answer \in Answers}

\* C26: a player's score is the number of entries of the player's answer
\* history marked correct; no operation lowers a score; in a started room
\* whose quiz has questions score <= history entries <= index + 1 <= question
\* count; the score is 0 in every waiting room.
C26_ScoreCountsCorrectAnswers ==
    /\ \A code \in DOMAIN rooms :
          LET room == rooms[code] IN
          \A player_id \in DOMAIN room.players :
             LET player == room.players[player_id] IN
             /\ player.score = CorrectCount(player)
             /\ room.status = "waiting" => player.score = 0 /\ player.answers = EmptyMap
             /\ (room.status # "waiting" /\ TotalQuestions(room) >= 1)
                => /\ player.score <= Cardinality(DOMAIN player.answers)
                   /\ Cardinality(DOMAIN player.answers) <= room.current_question_index + 1
                   /\ room.current_question_index + 1 <= TotalQuestions(room)
    /\ \A r \in OperationResults :
          \A code \in DOMAIN rooms : \A player_id \in DOMAIN rooms[code].players :
             /\ code \in DOMAIN r.rooms
             /\ player_id \in DOMAIN r.rooms[code].players
             /\ r.rooms[code].players[player_id].score >= rooms[code].players[player_id].score

\* a player has answered both questions of a quiz, one of them correctly
C26_Witness ==
    /\ last.op = "submit" /\ last.kind = "ok"
    /\ \E player_id \in DOMAIN RoomOf(last.code).players :
          LET player == RoomOf(last.code).players[player_id] IN
          /\ DOMAIN player.answers = {0, 1}
          /\ player.score = 1
          /\ ~player.answers[0].is_correct
          /\ player.answers[1].is_correct

\* C27: in a room in progress the keys of the current answers are player ids
\* of the room, and a player's id is a key exactly when the player's history
\* has an entry for the current index, the stored answer being that entry's
\* text; the current answers are empty in waiting and finished rooms.
C27_CurrentAnswersAreCurrent ==
    \A code \in DOMAIN rooms :
       LET room == rooms[code] IN
       /\ room.status = "in_progress"
          => /\ DOMAIN room.answers \subseteq DOMAIN room.players
             /\ \A player_id \in DOMAIN room.players :
                   /\ player_id \in DOMAIN room.answers
                      <=> room.current_question_index \in DOMAIN room.players[player_id].answers
                   /\ player_id \in DOMAIN room.answers
                      => room.answers[player_id]
                         = room.players[player_id].answers[room.current_question_index].answer
       /\ room.status \in {"waiting", "finished"} => room.answers = EmptyMap

\* at the second question one of two players has answered; the other one,
\* who answered the first question, is not among the current answers
C27_Witness ==
    /\ last.op = "submit" /\ last.kind = "ok"
    /\ RoomOf(last.code).status = "in_progress"
    /\ RoomOf(last.code).current_question_index = 1
    /\ \E p, q \in DOMAIN RoomOf(last.code).players :
          /\ p # q
          /\ DOMAIN RoomOf(last.code).answers = {p}
          /\ DOMAIN RoomOf(last.code).players[p].answers = {0, 1}
          /\ DOMAIN RoomOf(last.code).players[q].answers = {0}

\* the position of a status on the path waiting, in_progress, finished
StatusRank(status) == CASE status = "waiting" -> 0
                        [] status = "in_progress" -> 1
                        [] status = "finished" -> 2

\* one step leaves every room in place, keeps its status or moves it one
\* position forward, and changes nothing of a finished game
StatusMovesForward ==
    \A code \in DOMAIN rooms :
       /\ code \in DOMAIN rooms'
       /\ StatusRank(rooms'[code].status) >= StatusRank(rooms[code].status)
       /\ StatusRank(rooms'[code].status) <= StatusRank(rooms[code].status) + 1
       /\ rooms[code].status = "finished"
          => /\ rooms'[code].status = "finished"
             /\ rooms'[code].current_question_index = rooms[code].current_question_index
             /\ \A player_id \in DOMAIN rooms[code].players :
                   /\ player_id \in DOMAIN rooms'[code].players
                   /\ rooms'[code].players[player_id].score = rooms[code].players[player_id].score
                   /\ rooms'[code].players[player_id].answers = rooms[code].players[player_id].answers

\* C28: a room's status only moves forward along waiting, in_progress,
\* finished, one position at a time, and once a room is finished its status,
\* its question index and the score and answer history of every player it
\* has never change again.
C28_StatusOnlyMovesForward == [][StatusMovesForward]_vars

\* a submission to a finished room was refused although a player of the room
\* has no entry for its last question
C28_Witness ==
    /\ last.op = "submit" /\ last.kind = "InvalidAction"
    /\ Reaches(last.code)
    /\ RoomOf(last.code).status = "finished"
    /\ TotalQuestions(RoomOf(last.code)) = 2
    /\ \E player_id \in DOMAIN RoomOf(last.code).players :
          DOMAIN RoomOf(last.code).players[player_id].answers = {0}

\* one step keeps a room's question index, or sets it to 0 when the room is
\* started, or adds one to it while the room stays in progress
IndexStepsByOne ==
    \A code \in DOMAIN rooms :
       LET room == rooms[code]
           room2 == rooms'[code]
       IN TotalQuestions(room) >= 1
          => \/ room2.current_question_index = room.current_question_index
             \/ /\ room.status = "waiting" /\ room.current_question_index = None
                /\ room2.status = "in_progress" /\ room2.current_question_index = 0
             \/ /\ room.status = "in_progress" /\ room2.status = "in_progress"
                /\ room2.current_question_index = room.current_question_index + 1

\* C29: in a room whose quiz has N >= 1 questions the index of a game in
\* progress lies in 0..N-1; the index is absent until the start, starts at
\* 0, never decreases and changes only by +1; a room is finished only from
\* index N-1, so every index 0..N-1 has been current, in order, before.
C29_IndexWalksTheQuiz ==
    /\ [](\A code \in DOMAIN rooms :
            LET room == rooms[code] IN
            TotalQuestions(room) >= 1
            => /\ room.status = "waiting" => room.current_question_index = None
               /\ room.status = "in_progress"
                  => room.current_question_index \in 0..(TotalQuestions(room) - 1)
               /\ room.status = "finished"
                  => room.current_question_index = TotalQuestions(room) - 1)
    /\ [][IndexStepsByOne]_vars

\* the host has moved a two-question room from its first to its second
\* question, and the room is still in progress
C29_Witness ==
    /\ last.op = "advance" /\ last.kind = "ok"
    /\ TotalQuestions(RoomOf(last.code)) = 2
    /\ RoomOf(last.code).status = "in_progress"
    /\ RoomOf(last.code).current_question_index = 1
    /\ last.resp.current_question_index = 1

(***************************************************************************)
(* One game with a host who keeps advancing.  HostAdvances is the          *)
(* advance_room call of a room's own host on a game in progress; the       *)
(* fairness condition says that such a call is made again and again while  *)
(* it stays possible.  Every other call remains free to happen in between. *)
(***************************************************************************)
HostAdvances(code) ==
    /\ code \in DOMAIN rooms
    /\ rooms[code].status = "in_progress"
    /\ \E typed \in RequestCodes :
          /\ NormalizeCode(typed) = code
          /\ Finish("advance", typed, AdvanceRoomBody(rooms, code, rooms[code].host_id))
    /\ UNCHANGED <<nextId, started, locked, tasks, access>>

\* create_room called on the empty registry, the draw giving Code7: the game
\* followed below is the only one, and its code is the one clients type in
\* lower case with blanks around it
CreateOnlyRoom == DOMAIN rooms = {} /\ CreateRoom /\ Code7 \in DOMAIN rooms'

NextHost ==
    \/ CreateOnlyRoom
    \/ JoinRoom
    \/ GetRoomState
    \/ StartRoom
    \/ AdvanceRoom
    \/ SubmitAnswer

SpecHostAdvances ==
    Init /\ [][NextHost]_vars /\ \A code \in CodeDraws : WF_vars(HostAdvances(code))

\* the number of successful advance calls a room still needs to finish
Remaining(room) == IF room.status = "in_progress"
                   THEN TotalQuestions(room) - room.current_question_index
                   ELSE 0

\* a successful start leaves N advances to go, a successful advance one
\* less, finishing the room exactly when none is left, and every other step
\* leaves status and index of the room alone
AdvanceCountsDown ==
    \A code \in DOMAIN rooms :
       LET room == rooms[code]
           room2 == rooms'[code]
           succeeded(op) == last'.op = op /\ last'.kind = "ok" /\ NormalizeCode(last'.code) = code
       IN TotalQuestions(room) >= 1
          => IF succeeded("start")
             THEN /\ room.status = "waiting"
                  /\ room2.status = "in_progress"
                  /\ Remaining(room2) = TotalQuestions(room)
             ELSE IF succeeded("advance")
             THEN /\ room.status = "in_progress"
                  /\ Remaining(room2) = Remaining(room) - 1
                  /\ room2.status = IF Remaining(room) = 1 THEN "finished" ELSE "in_progress"
             ELSE /\ room2.status = room.status
                  /\ room2.current_question_index = room.current_question_index

\* C30: in a room whose quiz has N >= 1 questions a successful start leaves
\* exactly N successful advance calls to go: each one counts one down, the
\* room is finished by the one that reaches zero and in progress until then,
\* and the join and submit calls in between do not count; so a room in
\* progress whose host keeps advancing is eventually finished.
C30_AdvancesFinishTheRoom ==
    /\ [][AdvanceCountsDown]_vars
    /\ \A code \in CodeDraws :
          (code \in DOMAIN rooms /\ rooms[code].status = "in_progress"
                                 /\ TotalQuestions(rooms[code]) >= 1)
          ~> (code \in DOMAIN rooms /\ rooms[code].status = "finished")

\* the second advance has finished a two-question room in which one player
\* answered both questions and another joined and never answered
C30_Witness ==
    /\ last.op = "advance" /\ last.kind = "ok"
    /\ TotalQuestions(RoomOf(last.code)) = 2
    /\ Remaining(RoomOf(last.code)) = 0
    /\ RoomOf(last.code).status = "finished"
    /\ \E p, q \in DOMAIN RoomOf(last.code).players :
          /\ DOMAIN RoomOf(last.code).players[p].answers = {0, 1}
          /\ RoomOf(last.code).players[q].answers = EmptyMap

(***************************************************************************)
(* Two games side by side.  The calls are those of Spec; create_room and   *)
(* join_room may draw MaxRoomIds identifiers, enough for two rooms with a  *)
(* host and a player each, and every room gets the one-question quiz, so   *)
(* that both rooms can be in progress with players of their own.           *)
(***************************************************************************)
CreateRoomOfTwo ==
    /\ nextId <= MaxRoomIds
    /\ \E code \in GenerateRoomCode(rooms), host_name \in HostNames, difficulty \in Difficulties :
         Finish("create", code,
                CreateRoomBody(rooms, code, nextId, host_name, QuizPadded, difficulty))
    /\ nextId' = nextId + 1
    /\ UNCHANGED <<started, locked, tasks, access>>

JoinRoomOfTwo ==
    \E code \in RequestCodes, player_name \in Names :
       LET normalized_code == NormalizeCode(code)
           r == JoinRoomBody(rooms, normalized_code, nextId, player_name)
       IN /\ nextId <= MaxRoomIds
          /\ Finish("join", code,
                    IF r.kind = "ok"
                    THEN Return(r.rooms, JoinRoomResponse(r.rooms, normalized_code, nextId))
                    ELSE r)
          /\ nextId' = IF r.kind = "ok" THEN nextId + 1 ELSE nextId
          /\ UNCHANGED <<started, locked, tasks, access>>

NextRooms ==
    \/ CreateRoomOfTwo
    \/ JoinRoomOfTwo
    \/ GetRoomState
    \/ StartRoom
    \/ AdvanceRoom
    \/ SubmitAnswer

SpecRooms == Init /\ [][NextRooms]_vars

\* every result a call addressed to the room under code can return
ResultsFor(code) ==
    {JoinRoomBody(rooms, code, nextId, player_name) : player_name \in Names}
    \cup {GetRoomStateBody(rooms, code)}
    \cup {StartRoomBody(rooms, code, id) : id \in AnyIds}
    \cup {AdvanceRoomBody(rooms, code, id) : id \in AnyIds}
    \cup {SubmitAnswerBody(rooms, code, id, answer) : id \in AnyIds, answer \in Answers}

\* every result create_room can return
CreateResults ==
    {CreateRoomBody(rooms, code, nextId, host_name, quiz, difficulty) :
        code \in GenerateRoomCode(rooms), host_name \in HostNames,
        quiz \in Quizzes, difficulty \in Difficulties}

\* the identifiers issued for a room: its host's and its players'
IdsOf(room) == {room.host_id} \cup DOMAIN room.players

\* C31: a call addressed to one room code, refused or not, leaves every
\* other live room as it is, and so does every create; no call removes a
\* room or a player; an identifier issued for one room is no identifier of
\* another room, and start_room and advance_room of another room, and
\* submit_answer to another room in progress, refuse it with Unauthorized.
C31_RoomsAreIndependent ==
    /\ \A typed \in RequestCodes :
          \A r \in ResultsFor(NormalizeCode(typed)) :
             \A c \in DOMAIN rooms :
                /\ c \in DOMAIN r.rooms
                /\ c # NormalizeCode(typed) => r.rooms[c] = rooms[c]
                /\ DOMAIN rooms[c].players \subseteq DOMAIN r.rooms[c].players
    /\ \A r \in CreateResults :
          \A c \in DOMAIN rooms : c \in DOMAIN r.rooms /\ r.rooms[c] = rooms[c]
    /\ \A c, d \in DOMAIN rooms :
          c # d
          => \A id \in IdsOf(rooms[d]) :
                /\ id \notin IdsOf(rooms[c])
                /\ StartRoomBody(rooms, c, id).kind = "Unauthorized"
                /\ AdvanceRoomBody(rooms, c, id).kind = "Unauthorized"
                /\ rooms[c].status = "in_progress"
                   => \A answer \in Answers :
                         SubmitAnswerBody(rooms, c, id, answer).kind = "Unauthorized"

\* two rooms with a host and a player each, both in progress, and the last
\* call, a submission to one of them, was refused as unauthorized
C31_Witness ==
    /\ last.op = "submit" /\ last.kind = "Unauthorized"
    /\ Cardinality(DOMAIN rooms) = 2
    /\ \A c \in DOMAIN rooms :
          /\ rooms[c].status = "in_progress"
          /\ Cardinality(DOMAIN rooms[c].players) = 1
    /\ Reaches(last.code)

====
